---- MODULE Spec2Model ----
(***************************************************************************)
(* Model of the Notion -> GitHub converter:                                *)
(*   GitHubService  (pushFiles, createTree, createOrUpdateFile, ...)       *)
(*   NotionService  (getPagesFromDatabase, getPageContent, convertToMDX)   *)
(*   NotionToGitHubConverter (convertAndPush, convertSinglePage, ...)      *)
(*   the express routes that trigger the converter                         *)
(* Every await of the code on a collaborator is one step of a run, taken   *)
(* together with the synchronous code that follows it; the hosting service *)
(* and the content source answer each call with success or failure.        *)
(* Text is a sequence of strings (characters or tokens).                   *)
(***************************************************************************)
EXTENDS Integers, Sequences, FiniteSets, TLC

\* ------------------------------------------------------------------ bounds
MaxFiles == 2
MaxPages == 3
MaxTitle == 3
MaxSpans == 1

\* ------------------------------------------------------------- value sets
Runs == {"A", "B"}
Paths == {<<"a">>, <<"b">>}
Contents == {<<>>, <<"x">>}
GitHubFiles == [path : Paths, content : Contents, message : {<<"m">>}]
Batches == UNION {[1..n -> GitHubFiles] : n \in 1..MaxFiles}
NoSha == 0
NoExc == ""
Omitted == <<>>
Null == {}
NoArg == [path |-> <<>>, content |-> <<>>]
NoResult == [none |-> TRUE]
NoResponse == [none |-> TRUE]

VARIABLES
  ref,        \* hosting service: commit sha the configured branch points to
  commits,    \* hosting service: commit objects, the sha of a commit is its index
  refLog,     \* history: the ref updates the hosting service applied, in order
  database,   \* content source: the pages a query of the database lists
  pc,         \* per run: position in the code
  exc,        \* per run: message of the error the last service call threw
  calls,      \* per run: the collaborator calls issued, in order
  failed,     \* history, per run: the collaborator calls that answered with a failure
  files,      \* per run: pushFiles' argument
  base,       \* per run: pushFiles' baseTreeSha (ref.object.sha)
  tree,       \* per run: the tree createTree returned
  commit,     \* per run: commit.data.sha
  refAtStart, \* history, per run: the ref when the run entered pushFiles
  arg,        \* per run: createOrUpdateFile's filePath and content
  existingFile, \* per run: createOrUpdateFile's existingFile, {} is null, {c} a string
  fileSha,    \* per run: what getFileSha returned
  writes,     \* history: the content-write calls issued to the hosting service
  config,     \* per run: the converter's ConversionConfig
  op,         \* per run: the operation running, which a service returns to
  pageId,     \* per run: convertSinglePage's argument
  pages,      \* per run: getPagesFromDatabase's pages
  blockFail,  \* history, per run: indices of the pages whose block fetch failed
  errors,     \* per run: convertAndPush's errors
  result,     \* per run: the ConversionResult returned
  request,    \* per run: the HTTP request that triggered the run
  env,        \* process.env
  response,   \* per run: the HTTP response sent
  inTitle,    \* generateFileName's argument
  outFileName, \* what generateFileName returned, {} before the call
  inBlock,    \* convertBlockToMarkdown's argument
  outMarkdown \* what convertBlockToMarkdown returned, {} before the call

hostVars == <<ref, commits, refLog>>
pushVars == <<files, base, tree, commit, refAtStart>>
writeVars == <<arg, existingFile, fileSha, writes>>
convVars == <<database, config, op, pageId, pages, blockFail, errors>>
srvVars == <<request, env>>
textVars == <<inTitle, outFileName, inBlock, outMarkdown>>
vars == <<ref, commits, refLog, database, pc, exc, calls, failed, files, base, tree,
          commit, refAtStart, arg, existingFile, fileSha, writes, config, op, pageId,
          pages, blockFail, errors, result, request, env, response,
          inTitle, outFileName, inBlock, outMarkdown>>

\* ------------------------------------------------------- hosting service
EmptyTree == [p \in {} |-> <<>>]

TreeOf(sha) == commits[sha].tree

RECURSIVE Ancestors(_)
Ancestors(sha) ==
  {sha} \cup UNION {Ancestors(commits[sha].parents[i]) : i \in DOMAIN commits[sha].parents}

PathsOf(entries) == {entries[i].path : i \in DOMAIN entries}

\* git.createTree with base_tree: the entries layered on the base's tree.  Two
\* entries with one path cannot both be in a tree: the service keeps one of them.
HostTrees(entries, baseSha) ==
  LET P == PathsOf(entries)
      C == {entries[i].content : i \in DOMAIN entries}
      Picked == {f \in [P -> C] :
                   \A p \in P : \E i \in DOMAIN entries :
                     entries[i].path = p /\ entries[i].content = f[p]}
      B == TreeOf(baseSha)
  IN {[p \in (DOMAIN B) \cup P |-> IF p \in P THEN f[p] ELSE B[p]] : f \in Picked}

\* The hash of a file's content.
BlobSha(c) == <<"blob">> \o c

\* The transport encoding of the contents API, and the service's decoding.
Base64(c) == <<"base64">> \o c
FromBase64(e) == Tail(e)

\* repos.getContent on the branch: the file's data, a 404, or another failure.
FileExists(path) == path \in DOMAIN TreeOf(ref)

ContentResponses(path) ==
  {[status |-> 500, data |-> Null]} \cup
  (IF FileExists(path)
     THEN {[status |-> 200,
            data |-> {[content |-> Base64(TreeOf(ref)[path]),
                       encoding |-> "base64",
                       sha |-> BlobSha(TreeOf(ref)[path])]}]}
     ELSE {[status |-> 404, data |-> Null]})

\* repos.createOrUpdateFileContents: accepted when the request's sha is the
\* file's current hash, or is left out and there is no file.
WriteAccepted(path, sha) ==
  IF FileExists(path) THEN sha = BlobSha(TreeOf(ref)[path]) ELSE sha = Omitted

TreeWith(path, content) ==
  [p \in (DOMAIN TreeOf(ref)) \cup {path} |->
     IF p = path THEN content ELSE TreeOf(ref)[p]]

\* A collaborator call of run r that answers, and one that fails.
CallOk(r, name) ==
  /\ calls' = [calls EXCEPT ![r] = Append(@, name)]
  /\ failed' = failed

CallFails(r, name) ==
  /\ calls' = [calls EXCEPT ![r] = Append(@, name)]
  /\ failed' = [failed EXCEPT ![r] = Append(@, name)]

\* ------------------------------------------------------------------ text
RECURSIVE Concat(_)
Concat(ss) == IF ss = <<>> THEN <<>> ELSE Head(ss) \o Concat(Tail(ss))

UpperCase == <<"A", "B", "C", "D", "E", "F", "G", "H", "I", "J", "K", "L", "M",
               "N", "O", "P", "Q", "R", "S", "T", "U", "V", "W", "X", "Y", "Z">>
LowerCase == <<"a", "b", "c", "d", "e", "f", "g", "h", "i", "j", "k", "l", "m",
               "n", "o", "p", "q", "r", "s", "t", "u", "v", "w", "x", "y", "z">>
Digits == {"0", "1", "2", "3", "4", "5", "6", "7", "8", "9"}
Whitespace == {" ", "\t", "\n"}

ToLowerCase(c) ==
  IF \E i \in DOMAIN UpperCase : UpperCase[i] = c
    THEN LowerCase[CHOOSE i \in DOMAIN UpperCase : UpperCase[i] = c]
    ELSE c

\* .replace(/[^a-z0-9\s-]/g, '')
IsKept(c) ==
  \/ \E i \in DOMAIN LowerCase : LowerCase[i] = c
  \/ c \in Digits
  \/ c \in Whitespace
  \/ c = "-"

\* .replace(/X+/g, '-') for a class X of characters: every maximal run of X
\* becomes one hyphen.
RECURSIVE ReplaceRuns(_, _)
ReplaceRuns(s, X) ==
  IF s = <<>> THEN <<>>
  ELSE IF Head(s) \in X
    THEN IF Len(s) > 1 /\ s[2] \in X
           THEN ReplaceRuns(Tail(s), X)
           ELSE <<"-">> \o ReplaceRuns(Tail(s), X)
    ELSE <<Head(s)>> \o ReplaceRuns(Tail(s), X)

\* String.prototype.trim: white space is removed from both ends.
RECURSIVE TrimStart(_)
TrimStart(s) ==
  IF s # <<>> /\ Head(s) \in Whitespace THEN TrimStart(Tail(s)) ELSE s

RECURSIVE TrimEnd(_)
TrimEnd(s) ==
  IF s # <<>> /\ s[Len(s)] \in Whitespace THEN TrimEnd(SubSeq(s, 1, Len(s) - 1)) ELSE s

Trim(s) == TrimEnd(TrimStart(s))

generateFileName(title) ==
  LET lower == [i \in DOMAIN title |-> ToLowerCase(title[i])]
      kept == SelectSeq(lower, IsKept)
      hyphenated == ReplaceRuns(kept, Whitespace)
      single == ReplaceRuns(hyphenated, {"-"})
  IN Trim(single)

\* The file path: outputPath, "/", fileName, ".mdx".
FilePath(cfg, fileName) == <<cfg.outputPath, "/">> \o fileName \o <<".mdx">>

\* ---------------------------------------------------------- NotionService
\* The grave accent (U+0060), which a TLA+ string cannot hold.
Backtick == "GRAVE"

Wrap(mark, content) == mark \o content \o mark

RenderSpan(text) ==
  LET c0 == text.plain_text
      c1 == IF text.bold THEN Wrap(<<"*", "*">>, c0) ELSE c0
      c2 == IF text.italic THEN Wrap(<<"*">>, c1) ELSE c1
      c3 == IF text.strikethrough THEN Wrap(<<"~", "~">>, c2) ELSE c2
      c4 == IF text.code THEN Wrap(<<Backtick>>, c3) ELSE c3
  IN IF text.href # <<>>
       THEN <<"[">> \o c4 \o <<"]", "(">> \o text.href \o <<")">>
       ELSE c4

renderRichText(richText) ==
  Concat([i \in DOMAIN richText |-> RenderSpan(richText[i])])

renderHeading(heading, level) ==
  [i \in 1..level |-> "#"] \o <<" ">> \o renderRichText(heading.rich_text)

renderCode(code) ==
  <<Backtick, Backtick, Backtick>> \o code.language \o <<"\n">> \o renderRichText(code.rich_text)
    \o <<"\n", Backtick, Backtick, Backtick>>

renderImage(image) ==
  LET caption == renderRichText(image.caption)
      url == IF image.imageType = "external" THEN image.externalUrl ELSE image.fileUrl
  IN <<"!", "[">> \o caption \o <<"]", "(">> \o url \o <<")">>

convertBlockToMarkdown(block) ==
  LET content ==
        CASE block.type = "paragraph" -> renderRichText(block.rich_text)
          [] block.type = "heading_1" -> renderHeading(block, 1)
          [] block.type = "heading_2" -> renderHeading(block, 2)
          [] block.type = "heading_3" -> renderHeading(block, 3)
          [] block.type = "bulleted_list_item" ->
               <<"-", " ">> \o renderRichText(block.rich_text)
          [] block.type = "numbered_list_item" ->
               <<"1", ".", " ">> \o renderRichText(block.rich_text)
          [] block.type = "code" -> renderCode(block)
          [] block.type = "quote" -> <<">", " ">> \o renderRichText(block.rich_text)
          [] block.type = "image" -> renderImage(block)
          [] block.type = "divider" -> <<"\n", "-", "-", "-", "\n", "\n">>
          [] OTHER -> renderRichText(block.rich_text)
  IN content \o <<"\n", "\n">>

convertBlocksToMarkdown(blocks) ==
  Concat([i \in DOMAIN blocks |-> convertBlockToMarkdown(blocks[i])])

Untitled == <<"U", "n", "t", "i", "t", "l", "e", "d">>

\* extractTitle: the first text run of the title property, 'Untitled' when the
\* properties hold no title (a summary's title is then <<>>).
extractTitle(properties) ==
  IF properties.title # <<>> THEN properties.title[1] ELSE Untitled

\* new Date(t).toISOString() throws a RangeError on an invalid date.
IsValidTime(t) == Len(t) = 3 /\ t[2] = "T"

\* page.content.split('\n\n')[0]
RECURSIVE FirstParagraph(_)
FirstParagraph(s) ==
  IF s = <<>> THEN <<>>
  ELSE IF Len(s) > 1 /\ s[1] = "\n" /\ s[2] = "\n" THEN <<>>
  ELSE <<Head(s)>> \o FirstParagraph(Tail(s))

SummaryLimit == 150

Summary(content) ==
  LET firstParagraph == FirstParagraph(content)
  IN IF Len(firstParagraph) > SummaryLimit
       THEN SubSeq(firstParagraph, 1, SummaryLimit) \o <<".", ".", ".">>
       ELSE IF firstParagraph # <<>> THEN firstParagraph
       ELSE <<"No summary available">>

\* matter.stringify('', data): the YAML header of the document.
FrontMatter(title, publishedDate, summary) ==
  <<"---", "\n", "title: ">> \o title \o <<"\n", "publishedAt: ">> \o publishedDate
    \o <<"\n", "summary: ">> \o summary \o <<"\n", "---", "\n">>

\* convertToMDX: the document, or the error thrown.
convertToMDX(page) ==
  IF ~IsValidTime(page.lastEditedTime)
    THEN [threw |-> TRUE, value |-> <<"RangeError: Invalid time value">>]
    ELSE [threw |-> FALSE,
          value |-> FrontMatter(page.title, <<page.lastEditedTime[1]>>,
                                Summary(page.content))
                      \o <<"\n", "\n">> \o page.content]

\* ------------------------------------------------ returning to the caller
\* The routes answer 200 with a successful result and 500 with a failed one.
RouteResponse(res) == [status |-> IF res.success THEN 200 ELSE 500, body |-> res]

\* The converter operation of run r returns res: to the route that awaited it,
\* which responds, or to the caller of the converter.
Return(r, res) ==
  /\ result' = [result EXCEPT ![r] = res]
  /\ IF request[r].route = "none"
       THEN /\ pc' = [pc EXCEPT ![r] = "cv_done"]
            /\ response' = response
       ELSE /\ pc' = [pc EXCEPT ![r] = "rt_done"]
            /\ response' = [response EXCEPT ![r] = RouteResponse(res)]

\* The run goes on to its next await.
Continue(r, next) ==
  /\ pc' = [pc EXCEPT ![r] = next]
  /\ UNCHANGED <<exc, result, response>>

\* convertAndPush's catch block.
ConvertAndPushCatch(message) ==
  [success |-> FALSE, message |-> "Conversion process failed",
   errors |-> <<<<message>>>>]

\* convertAndPush's return after pushFiles: errors is left out when empty.
ConvertAndPushPushed(fs, errs) ==
  IF errs # <<>>
    THEN [success |-> TRUE,
          message |-> "Successfully converted and pushed pages to GitHub",
          filesProcessed |-> Len(fs), errors |-> errs]
    ELSE [success |-> TRUE,
          message |-> "Successfully converted and pushed pages to GitHub",
          filesProcessed |-> Len(fs)]

\* convertSinglePage's catch block.
ConvertSinglePageCatch(message) ==
  [success |-> FALSE, message |-> "Single page conversion failed",
   errors |-> <<<<message>>>>]

\* convertSinglePage's return after createOrUpdateFile.
ConvertSinglePageWritten ==
  [success |-> TRUE, message |-> "Successfully converted and pushed to GitHub",
   filesProcessed |-> 1]

\* --------------------------------------------------------- GitHubService
\* Variant: the last file of the batch is left out of the request.
TreeEntriesDropLast(fs) ==
  [i \in 1..(Len(fs) - 1) |-> [path |-> fs[i].path, content |-> fs[i].content]]

\* createTree's request body: one blob entry per file, in order.
TreeEntries(fs) == [i \in DOMAIN fs |-> [path |-> fs[i].path, content |-> fs[i].content]]

\* Variant: the commit is parented on the branch as it is when the commit is made.
CommitParentsCurrent(r) == <<ref>>

\* createCommit's parents.
CommitParents(r) == <<base[r]>>

\* pushFiles ends: it returns (message = NoExc) or throws, to convertAndPush
\* when that awaited it.
PushFilesEnd(r, message) ==
  /\ exc' = [exc EXCEPT ![r] = message]
  /\ IF op[r] = "convertAndPush"
       THEN Return(r, IF message = NoExc
                        THEN ConvertAndPushPushed(files[r], errors[r])
                        ELSE ConvertAndPushCatch(message))
       ELSE /\ pc' = [pc EXCEPT ![r] = "pf_done"]
            /\ UNCHANGED <<result, response>>

\* Variant: the catch block logs the failure and returns normally.
PushFilesCatchSwallow(r) == PushFilesEnd(r, NoExc)

\* pushFiles' catch block: whatever failed, a new Error is thrown.
PushFilesCatch(r) == PushFilesEnd(r, "Failed to push files to GitHub")

PushFilesGetRef(r) ==
  /\ pc[r] = "pf_getRef"
  /\ \/ /\ CallOk(r, "getRef")
        /\ base' = [base EXCEPT ![r] = ref]
        /\ Continue(r, "pf_createTree")
     \/ /\ CallFails(r, "getRef")
        /\ PushFilesCatch(r)
        /\ base' = base
  /\ UNCHANGED <<hostVars, files, tree, commit, refAtStart, writeVars, convVars, srvVars, textVars>>

PushFilesCreateTree(r) ==
  /\ pc[r] = "pf_createTree"
  /\ \/ /\ CallOk(r, "createTree")
        /\ \E t \in HostTrees(TreeEntries(files[r]), base[r]) :
             tree' = [tree EXCEPT ![r] = t]
        /\ Continue(r, "pf_createCommit")
     \/ /\ CallFails(r, "createTree")
        /\ PushFilesCatch(r)
        /\ tree' = tree
  /\ UNCHANGED <<hostVars, files, base, commit, refAtStart, writeVars, convVars, srvVars, textVars>>

PushFilesCreateCommit(r) ==
  /\ pc[r] = "pf_createCommit"
  /\ \/ /\ CallOk(r, "createCommit")
        /\ commits' = Append(commits, [parents |-> CommitParents(r), tree |-> tree[r]])
        /\ commit' = [commit EXCEPT ![r] = Len(commits) + 1]
        /\ Continue(r, "pf_updateRef")
     \/ /\ CallFails(r, "createCommit")
        /\ PushFilesCatch(r)
        /\ UNCHANGED <<commits, commit>>
  /\ UNCHANGED <<ref, refLog, files, base, tree, refAtStart, writeVars, convVars, srvVars, textVars>>

PushFilesUpdateRef(r) ==
  /\ pc[r] = "pf_updateRef"
  /\ \/ /\ CallOk(r, "updateRef")
        /\ ref' = commit[r]
        /\ refLog' = Append(refLog, [by |-> r, sha |-> commit[r]])
        /\ PushFilesEnd(r, NoExc)
     \/ /\ CallFails(r, "updateRef")
        /\ PushFilesCatch(r)
        /\ UNCHANGED <<ref, refLog>>
  /\ UNCHANGED <<commits, files, base, tree, commit, refAtStart, writeVars, convVars,
                 srvVars, textVars>>

\* JavaScript's truthiness of a string | null: null and '' are falsy.
Truthy(v) == v # Null /\ v # {<<>>}

\* Variant: every failed lookup counts as a miss.
IsMissAlways(status) == status # 200

\* The miss signal of a lookup: error.status === 404.
IsMiss(status) == status = 404

\* getFileContent: the decoded content, null on a miss; any other failure is
\* rethrown.
getFileContent(resp) ==
  IF resp.status = 200
    THEN [threw |-> FALSE,
          value |-> {FromBase64(d.content) : d \in resp.data}]
    ELSE IF IsMiss(resp.status)
      THEN [threw |-> FALSE, value |-> Null]
      ELSE [threw |-> TRUE, value |-> Null]

\* createOrUpdateFile ends: it returns or throws, to convertSinglePage when
\* that awaited it.
CreateOrUpdateEnd(r, message) ==
  /\ exc' = [exc EXCEPT ![r] = message]
  /\ IF op[r] = "convertSinglePage"
       THEN Return(r, IF message = NoExc
                        THEN ConvertSinglePageWritten
                        ELSE ConvertSinglePageCatch(message))
       ELSE /\ pc' = [pc EXCEPT ![r] = "cu_done"]
            /\ UNCHANGED <<result, response>>

\* Variant: the catch block logs the failure and returns normally.
CreateOrUpdateCatchSwallow(r) == CreateOrUpdateEnd(r, NoExc)

\* createOrUpdateFile's catch block.
CreateOrUpdateCatch(r) == CreateOrUpdateEnd(r, "Failed to create/update file")

LookupName(status) ==
  IF status = 200 \/ status = 500 THEN "getContent" ELSE "getContent404"

\* const existingFile = await this.getFileContent(filePath); if (existingFile)
CreateOrUpdateGetFileContent(r) ==
  /\ pc[r] = "cu_getFileContent"
  /\ \E resp \in ContentResponses(arg[r].path) :
       LET got == getFileContent(resp) IN
       /\ IF resp.status = 200
            THEN CallOk(r, LookupName(resp.status))
            ELSE CallFails(r, LookupName(resp.status))
       /\ IF got.threw
            THEN /\ CreateOrUpdateCatch(r)
                 /\ existingFile' = existingFile
            ELSE /\ existingFile' = [existingFile EXCEPT ![r] = got.value]
                 /\ Continue(r, IF Truthy(got.value) THEN "cu_getFileSha" ELSE "cu_create")
  /\ UNCHANGED <<hostVars, pushVars, arg, fileSha, writes, convVars, srvVars, textVars>>

\* getFileSha, awaited for the update's sha argument.  It has no catch of its
\* own: a failed lookup, a miss included, is thrown to createOrUpdateFile.
CreateOrUpdateGetFileSha(r) ==
  /\ pc[r] = "cu_getFileSha"
  /\ \E resp \in ContentResponses(arg[r].path) :
       IF resp.status = 200
         THEN /\ CallOk(r, LookupName(resp.status))
              /\ \E d \in resp.data : fileSha' = [fileSha EXCEPT ![r] = d.sha]
              /\ Continue(r, "cu_update")
         ELSE /\ CallFails(r, LookupName(resp.status))
              /\ CreateOrUpdateCatch(r)
              /\ fileSha' = fileSha
  /\ UNCHANGED <<hostVars, pushVars, arg, existingFile, writes, convVars, srvVars, textVars>>

\* A content-write call and the service's answer to it.
PutContents(r, sha) ==
  /\ writes' = Append(writes,
       [by |-> r, path |-> arg[r].path, content |-> Base64(arg[r].content),
        sha |-> sha,
        current |-> IF FileExists(arg[r].path)
                      THEN BlobSha(TreeOf(ref)[arg[r].path]) ELSE Omitted])
  /\ \/ /\ WriteAccepted(arg[r].path, sha)
        /\ CallOk(r, "putContents")
        /\ commits' = Append(commits,
             [parents |-> <<ref>>,
              tree |-> TreeWith(arg[r].path, FromBase64(Base64(arg[r].content)))])
        /\ ref' = Len(commits) + 1
        /\ refLog' = Append(refLog, [by |-> r, sha |-> Len(commits) + 1])
        /\ CreateOrUpdateEnd(r, NoExc)
     \/ /\ CallFails(r, "putContents")
        /\ CreateOrUpdateCatch(r)
        /\ UNCHANGED hostVars
  /\ UNCHANGED <<pushVars, arg, existingFile, fileSha, convVars, srvVars, textVars>>

\* Update existing file: the write carries the sha.
CreateOrUpdatePutUpdate(r) ==
  /\ pc[r] = "cu_update"
  /\ PutContents(r, fileSha[r])

\* Create new file: the write carries no sha.
CreateOrUpdatePutCreate(r) ==
  /\ pc[r] = "cu_create"
  /\ PutContents(r, Omitted)

\* ---------------------------------------------- NotionService, converter
DatabaseId == "db"

\* The block lists a page's block fetch can answer with.
PlainSpan(text) ==
  [plain_text |-> text, bold |-> FALSE, italic |-> FALSE, strikethrough |-> FALSE,
   code |-> FALSE, href |-> <<>>]

Paragraph(text) ==
  [type |-> "paragraph", rich_text |-> <<PlainSpan(text)>>, language |-> <<>>,
   caption |-> <<>>, imageType |-> "file", externalUrl |-> <<>>, fileUrl |-> <<>>]

BlockLists == {<<Paragraph(<<"x">>)>>}

\* Variant: a failed block fetch is thrown to getPagesFromDatabase.
getPageContentRethrow(ok, blocks) ==
  IF ok THEN [threw |-> FALSE, value |-> convertBlocksToMarkdown(blocks)]
        ELSE [threw |-> TRUE, value |-> <<>>]

\* getPageContent: the rendered blocks, '' when the block fetch failed.
getPageContent(ok, blocks) ==
  IF ok THEN [threw |-> FALSE, value |-> convertBlocksToMarkdown(blocks)]
        ELSE [threw |-> FALSE, value |-> <<>>]

\* new Date().toISOString(), for a page without last_edited_time.
Now == <<"2026-01-01", "T", "00:00:00.000Z">>

\* The NotionPage pushed for a query result.
NotionPage(summary, pageContent) ==
  [id |-> summary.id,
   title |-> extractTitle(summary.properties),
   content |-> pageContent,
   lastEditedTime |-> IF summary.last_edited_time # <<>>
                        THEN summary.last_edited_time ELSE Now]

ConvertError(page, error) ==
  <<"Failed to convert page \"">> \o page.title \o <<"\": ">> \o error

GitHubFile(cfg, page, mdxContent) ==
  [path |-> FilePath(cfg, generateFileName(page.title)),
   content |-> mdxContent,
   message |-> <<"Update ">> \o page.title \o <<" from Notion">>]

\* Variant: a page without content is reported and skipped.
RECURSIVE ConvertPagesSkipEmpty(_, _, _)
ConvertPagesSkipEmpty(ps, cfg, acc) ==
  IF ps = <<>> THEN acc
  ELSE LET page == Head(ps)
           mdx == convertToMDX(page)
       IN ConvertPagesSkipEmpty(Tail(ps), cfg,
            IF mdx.threw \/ page.content = <<>>
              THEN [acc EXCEPT !.errors = Append(@, ConvertError(page, <<"no content">>))]
              ELSE [acc EXCEPT !.files = Append(@, GitHubFile(cfg, page, mdx.value))])

\* convertAndPush's loop over the pages: the files and the errors collected.
RECURSIVE ConvertPages(_, _, _)
ConvertPages(ps, cfg, acc) ==
  IF ps = <<>> THEN acc
  ELSE LET page == Head(ps)
           mdx == convertToMDX(page)
       IN ConvertPages(Tail(ps), cfg,
            IF mdx.threw
              THEN [acc EXCEPT !.errors = Append(@, ConvertError(page, mdx.value))]
              ELSE [acc EXCEPT !.files = Append(@, GitHubFile(cfg, page, mdx.value))])

\* Variant: the first page of the listing is taken whatever its id.
FindPageFirst(ps, id) == IF ps = <<>> THEN {} ELSE {ps[1]}

\* pages.find(page => page.id === pageId): {} when there is none.
FindPage(ps, id) ==
  IF \E i \in DOMAIN ps : ps[i].id = id
    THEN {ps[CHOOSE i \in DOMAIN ps : ps[i].id = id /\ \A j \in 1..(i - 1) : ps[j].id # id]}
    ELSE {}

\* Variant: the batch is pushed even when it holds no file.
ConvertAndPushWithPagesUnguarded(ps, cfg) ==
  IF Len(ps) = 0
    THEN [kind |-> "return",
          res |-> [success |-> FALSE,
                   message |-> "No pages found in the specified Notion database",
                   errors |-> <<<<"Database is empty or access denied">>>>]]
    ELSE LET conv == ConvertPages(ps, cfg, [files |-> <<>>, errors |-> <<>>])
         IN [kind |-> "push", files |-> conv.files, errors |-> conv.errors]

\* What convertAndPush does with the pages, up to its await of pushFiles.
ConvertAndPushWithPages(ps, cfg) ==
  IF Len(ps) = 0
    THEN [kind |-> "return",
          res |-> [success |-> FALSE,
                   message |-> "No pages found in the specified Notion database",
                   errors |-> <<<<"Database is empty or access denied">>>>]]
    ELSE LET conv == ConvertPages(ps, cfg, [files |-> <<>>, errors |-> <<>>])
         IN IF Len(conv.files) = 0
              THEN [kind |-> "return",
                    res |-> [success |-> FALSE,
                             message |-> "No files were successfully converted",
                             errors |-> conv.errors]]
              ELSE [kind |-> "push", files |-> conv.files, errors |-> conv.errors]

\* What convertSinglePage does with the pages, up to its await of
\* createOrUpdateFile.
ConvertSinglePageWithPages(ps, cfg, id) ==
  LET target == FindPage(ps, id)
  IN IF target = {}
       THEN [kind |-> "return",
             res |-> [success |-> FALSE, message |-> "Page not found",
                      errors |-> <<<<"Page with ID not found in database">>>>]]
       ELSE LET targetPage == CHOOSE p \in target : TRUE
                mdx == convertToMDX(targetPage)
            IN IF mdx.threw
                 THEN [kind |-> "return",
                       res |-> ConvertSinglePageCatch(mdx.value[1])]
                 ELSE [kind |-> "write",
                       arg |-> [path |-> FilePath(cfg, generateFileName(targetPage.title)),
                                content |-> mdx.value]]

\* getPagesFromDatabase returned ps to the operation of run r.
AfterGetPages(r, ps) ==
  LET out == IF op[r] = "convertAndPush"
               THEN ConvertAndPushWithPages(ps, config[r])
               ELSE ConvertSinglePageWithPages(ps, config[r], pageId[r])
  IN /\ files' = IF out.kind = "push" THEN [files EXCEPT ![r] = out.files] ELSE files
     /\ errors' = IF out.kind = "push" THEN [errors EXCEPT ![r] = out.errors] ELSE errors
     /\ refAtStart' = IF out.kind = "push" THEN [refAtStart EXCEPT ![r] = ref]
                                           ELSE refAtStart
     /\ arg' = IF out.kind = "write" THEN [arg EXCEPT ![r] = out.arg] ELSE arg
     /\ IF out.kind = "return"
          THEN /\ Return(r, out.res)
               /\ exc' = exc
          ELSE Continue(r, IF out.kind = "push" THEN "pf_getRef" ELSE "cu_getFileContent")

\* getPagesFromDatabase threw: the catch block of the operation returns.
GetPagesThrew(r) ==
  /\ exc' = [exc EXCEPT ![r] = "Failed to fetch pages from Notion"]
  /\ Return(r, IF op[r] = "convertAndPush"
                 THEN ConvertAndPushCatch("Failed to fetch pages from Notion")
                 ELSE ConvertSinglePageCatch("Failed to fetch pages from Notion"))
  /\ UNCHANGED <<files, errors, refAtStart, arg>>

\* Variant: the answer of validateRepository is not looked at.
ConvertAndPushValidateRepositoryIgnored(r) ==
  /\ pc[r] = "cp_validateRepository"
  /\ \/ CallOk(r, "repos.get")
     \/ CallFails(r, "repos.get") /\ exc' = exc
  /\ Continue(r, "gp_query")
  /\ UNCHANGED <<hostVars, pushVars, writeVars, convVars, srvVars, textVars>>

\* convertAndPush: const isValidRepo = await this.githubService.validateRepository()
ConvertAndPushValidateRepository(r) ==
  /\ pc[r] = "cp_validateRepository"
  /\ \/ /\ CallOk(r, "repos.get")
        /\ Continue(r, "gp_query")
     \/ /\ CallFails(r, "repos.get")
        /\ exc' = exc
        /\ Return(r, [success |-> FALSE,
                      message |-> "Invalid GitHub repository configuration",
                      errors |-> <<<<"Repository not found or access denied">>>>])
  /\ UNCHANGED <<hostVars, pushVars, writeVars, convVars, srvVars, textVars>>

\* getPagesFromDatabase: await this.client.databases.query(...).  The content
\* source answers a query only for the database it holds.
GetPagesQuery(r) ==
  /\ pc[r] = "gp_query"
  /\ \/ /\ config[r].notionDatabaseId = DatabaseId
        /\ CallOk(r, "databases.query")
        /\ pages' = [pages EXCEPT ![r] = <<>>]
        /\ IF database = <<>>
             THEN AfterGetPages(r, <<>>)
             ELSE /\ Continue(r, "gp_blocks")
                  /\ UNCHANGED <<files, errors, refAtStart, arg>>
     \/ /\ CallFails(r, "databases.query")
        /\ GetPagesThrew(r)
        /\ pages' = pages
  /\ UNCHANGED <<hostVars, base, tree, commit, existingFile, fileSha, writes,
                 database, config, op, pageId, blockFail, srvVars, textVars>>

\* getPagesFromDatabase's loop: await this.getPageContent(pageId) for the next
\* result, and the page pushed; after the last result the pages are returned.
GetPagesBlocks(r) ==
  /\ pc[r] = "gp_blocks"
  /\ LET i == Len(pages[r]) + 1 IN
     \E ok \in BOOLEAN : \E blocks \in (IF ok THEN BlockLists ELSE {<<>>}) :
       LET got == getPageContent(ok, blocks)
           ps == Append(pages[r], NotionPage(database[i], got.value))
       IN /\ IF ok THEN CallOk(r, "blocks.children.list")
                   ELSE CallFails(r, "blocks.children.list")
          /\ blockFail' = IF ok THEN blockFail
                                ELSE [blockFail EXCEPT ![r] = @ \cup {i}]
          /\ IF got.threw
               THEN /\ GetPagesThrew(r)
                    /\ pages' = pages
               ELSE /\ pages' = [pages EXCEPT ![r] = ps]
                    /\ IF i = Len(database)
                         THEN AfterGetPages(r, ps)
                         ELSE /\ Continue(r, "gp_blocks")
                              /\ UNCHANGED <<files, errors, refAtStart, arg>>
  /\ UNCHANGED <<hostVars, base, tree, commit, existingFile, fileSha, writes,
                 database, config, op, pageId, srvVars, textVars>>

\* ----------------------------------------------------------------- routes
\* !x of JavaScript for a string that may be missing ("" stands for both).
Missing(x) == x = ""

\* validateConfiguration: one error per missing setting.
validateConfiguration(cfg) ==
  LET errs ==
        (IF Missing(cfg.notionDatabaseId)
           THEN <<"Notion database ID is required">> ELSE <<>>)
        \o (IF Missing(cfg.githubRepoOwner)
              THEN <<"GitHub repository owner is required">> ELSE <<>>)
        \o (IF Missing(cfg.githubRepoName)
              THEN <<"GitHub repository name is required">> ELSE <<>>)
        \o (IF Missing(cfg.githubBranch) THEN <<"GitHub branch is required">> ELSE <<>>)
        \o (IF Missing(cfg.outputPath) THEN <<"Output path is required">> ELSE <<>>)
  IN [isValid |-> Len(errs) = 0, errors |-> errs]

\* The converter built from a request body (the two keys go to the services).
ConfigOfBody(body) ==
  [notionApiKey |-> body.notionApiKey,
   githubToken |-> body.githubToken,
   notionDatabaseId |-> body.notionDatabaseId,
   githubRepoOwner |-> body.githubRepoOwner,
   githubRepoName |-> body.githubRepoName,
   githubBranch |-> body.githubBranch,
   outputPath |-> body.outputPath]

OrDefault(x, default) == IF Missing(x) THEN default ELSE x

\* buildConverterFromEnv: the database id is set to ''.
buildConverterFromEnv ==
  [notionApiKey |-> env.NOTION_API_KEY,
   githubToken |-> env.GITHUB_TOKEN,
   notionDatabaseId |-> "",
   githubRepoOwner |-> env.GITHUB_REPO_OWNER,
   githubRepoName |-> env.GITHUB_REPO_NAME,
   githubBranch |-> OrDefault(env.GITHUB_BRANCH, "main"),
   outputPath |-> OrDefault(env.OUTPUT_PATH, "content/posts")]

\* The first check of the two convert routes.
BodyIncomplete(body) ==
  \/ Missing(body.notionApiKey) \/ Missing(body.notionDatabaseId)
  \/ Missing(body.githubToken) \/ Missing(body.githubRepoOwner)
  \/ Missing(body.githubRepoName) \/ Missing(body.githubBranch)
  \/ Missing(body.outputPath)

\* The route responds without calling the converter.
Respond(r, status, body) ==
  /\ response' = [response EXCEPT ![r] = [status |-> status, body |-> body]]
  /\ pc' = [pc EXCEPT ![r] = "rt_done"]
  /\ UNCHANGED <<config, op, pageId, result, exc>>

\* The route calls the converter, which runs to its first await.
Invoke(r, cfg, operation, id) ==
  /\ config' = [config EXCEPT ![r] = cfg]
  /\ op' = [op EXCEPT ![r] = operation]
  /\ pageId' = [pageId EXCEPT ![r] = id]
  /\ Continue(r, IF operation = "convertAndPush" THEN "cp_validateRepository"
                                                 ELSE "gp_query")

routeUnchanged ==
  <<hostVars, pushVars, writeVars, database, pages, blockFail, errors, calls, failed,
    srvVars, textVars>>

\* app.post('/api/convert', ...) up to its await of convertAndPush.
RouteConvert(r) ==
  /\ pc[r] = "rt_start"
  /\ request[r].route = "POST /api/convert"
  /\ LET body == request[r].body
         validation == validateConfiguration(ConfigOfBody(body))
     IN IF BodyIncomplete(body)
          THEN Respond(r, 400, [success |-> FALSE,
                                message |-> "Missing required configuration parameters"])
          ELSE IF ~validation.isValid
            THEN Respond(r, 400, [success |-> FALSE, message |-> "Invalid configuration",
                                  errors |-> validation.errors])
            ELSE Invoke(r, ConfigOfBody(body), "convertAndPush", "")
  /\ UNCHANGED routeUnchanged

\* app.post('/api/convert/page', ...) up to its await of convertSinglePage.
RouteConvertPage(r) ==
  /\ pc[r] = "rt_start"
  /\ request[r].route = "POST /api/convert/page"
  /\ LET body == request[r].body
         validation == validateConfiguration(ConfigOfBody(body))
     IN IF BodyIncomplete(body) \/ Missing(body.pageId)
          THEN Respond(r, 400, [success |-> FALSE,
                                message |-> "Missing required configuration parameters"])
          ELSE IF ~validation.isValid
            THEN Respond(r, 400, [success |-> FALSE, message |-> "Invalid configuration",
                                  errors |-> validation.errors])
            ELSE Invoke(r, ConfigOfBody(body), "convertSinglePage", body.pageId)
  /\ UNCHANGED routeUnchanged

\* The page id of a webhook payload, "" when it holds none: body.pageId when
\* it is a string, else event.target.id, else events[0].data.id.
WebhookPageId(body) ==
  IF body.pageId # {} THEN CHOOSE x \in body.pageId : TRUE
  ELSE IF body.eventTargetId # {} /\ body.eventTargetId # {""}
    THEN CHOOSE x \in body.eventTargetId : TRUE
  ELSE IF body.eventsFirstId # {} /\ body.eventsFirstId # {""}
    THEN CHOOSE x \in body.eventsFirstId : TRUE
  ELSE ""

\* Variant: the secret is compared only when one is configured.
WebhookAuthorizedLax(provided) ==
  Missing(env.WEBHOOK_SECRET) \/ provided = env.WEBHOOK_SECRET

\* The webhook's check of the X-Webhook-Secret header.
WebhookAuthorized(provided) ==
  ~(Missing(env.WEBHOOK_SECRET) \/ provided # env.WEBHOOK_SECRET)

\* app.post('/api/webhooks/notion', ...) up to its await of the converter.
RouteWebhook(r) ==
  /\ pc[r] = "rt_start"
  /\ request[r].route = "POST /api/webhooks/notion"
  /\ LET id == WebhookPageId(request[r].body)
     IN IF ~WebhookAuthorized(request[r].secret)
          THEN Respond(r, 401, [success |-> FALSE, message |-> "Unauthorized"])
          ELSE IF ~Missing(id)
            THEN Invoke(r, buildConverterFromEnv, "convertSinglePage", id)
            ELSE Invoke(r, buildConverterFromEnv, "convertAndPush", "")
  /\ UNCHANGED routeUnchanged

\* ----------------------------------------------------------- initial states
ValidConfig ==
  [notionApiKey |-> "secret_notion", githubToken |-> "ghp_token",
   notionDatabaseId |-> DatabaseId, githubRepoOwner |-> "owner",
   githubRepoName |-> "repo", githubBranch |-> "main", outputPath |-> "content/posts"]

NoConfig ==
  [notionApiKey |-> "", githubToken |-> "", notionDatabaseId |-> "",
   githubRepoOwner |-> "", githubRepoName |-> "", githubBranch |-> "",
   outputPath |-> ""]

FullEnv ==
  [NOTION_API_KEY |-> "secret_notion", NOTION_DATABASE_ID |-> DatabaseId,
   GITHUB_TOKEN |-> "ghp_token", GITHUB_REPO_OWNER |-> "owner",
   GITHUB_REPO_NAME |-> "repo", GITHUB_BRANCH |-> "main",
   OUTPUT_PATH |-> "content/posts", WEBHOOK_SECRET |-> "s3cret"]

NoRequest == [route |-> "none"]

PageIds == <<"p1", "p2", "p3", "p4", "p5">>
AbsentPageId == "p0"

TitleProperties == {<<>>, <<<<"H", "i", "!">>>>}
EditedTimes == {<<"2024-03-05", "T", "10:00:00.000Z">>, <<"Invalid Date">>}
PageProperties == [title : TitleProperties, time : EditedTimes]

DatabasesOf(n) ==
  {[i \in 1..n |-> [id |-> PageIds[i],
                    properties |-> [title |-> pp[i].title],
                    last_edited_time |-> pp[i].time]] : pp \in [1..n -> PageProperties]}

Databases == UNION {DatabasesOf(n) : n \in 0..MaxPages}

\* What the hosting service holds at the start.
InitHost(trees) ==
  /\ \E t \in trees : commits = <<[parents |-> <<>>, tree |-> t]>>
  /\ ref = 1
  /\ refLog = <<>>
  /\ writes = <<>>

\* The locals of every run before it starts.
InitLocals ==
  /\ exc = [r \in Runs |-> NoExc]
  /\ calls = [r \in Runs |-> <<>>]
  /\ failed = [r \in Runs |-> <<>>]
  /\ base = [r \in Runs |-> NoSha]
  /\ tree = [r \in Runs |-> EmptyTree]
  /\ commit = [r \in Runs |-> NoSha]
  /\ refAtStart = [r \in Runs |-> 1]
  /\ existingFile = [r \in Runs |-> Null]
  /\ fileSha = [r \in Runs |-> Omitted]
  /\ pages = [r \in Runs |-> <<>>]
  /\ blockFail = [r \in Runs |-> {}]
  /\ errors = [r \in Runs |-> <<>>]
  /\ result = [r \in Runs |-> NoResult]
  /\ response = [r \in Runs |-> NoResponse]

\* No text function has been called.
NoBlock == [type |-> "none"]

InitText ==
  /\ inTitle = <<>>
  /\ outFileName = Null
  /\ inBlock = NoBlock
  /\ outMarkdown = Null

\* --------------------------- specification: two concurrent pushFiles runs
InitTrees == {EmptyTree, [p \in {<<"a">>} |-> <<"x">>]}

InitPush ==
  /\ InitText
  /\ InitHost(InitTrees)
  /\ InitLocals
  /\ database = <<>>
  /\ pc = [r \in Runs |-> "pf_getRef"]
  /\ files \in [Runs -> Batches]
  /\ arg = [r \in Runs |-> NoArg]
  /\ config = [r \in Runs |-> ValidConfig]
  /\ op = [r \in Runs |-> "pushFiles"]
  /\ pageId = [r \in Runs |-> ""]
  /\ request = [r \in Runs |-> NoRequest]
  /\ env = FullEnv

NextPush ==
  \E r \in Runs :
    \/ PushFilesGetRef(r)
    \/ PushFilesCreateTree(r)
    \/ PushFilesCreateCommit(r)
    \/ PushFilesUpdateRef(r)

SpecPush == InitPush /\ [][NextPush]_vars

\* ----------------------------------- specification: one createOrUpdateFile
AllTrees == UNION {[P -> Contents] : P \in SUBSET Paths}

InitWrite ==
  /\ InitText
  /\ InitHost(AllTrees)
  /\ InitLocals
  /\ database = <<>>
  /\ pc = [r \in Runs |-> IF r = "A" THEN "cu_getFileContent" ELSE "idle"]
  /\ files = [r \in Runs |-> <<>>]
  /\ \E f \in GitHubFiles :
       arg = [r \in Runs |-> IF r = "A" THEN [path |-> f.path, content |-> f.content]
                                        ELSE NoArg]
  /\ config = [r \in Runs |-> ValidConfig]
  /\ op = [r \in Runs |-> "createOrUpdateFile"]
  /\ pageId = [r \in Runs |-> ""]
  /\ request = [r \in Runs |-> NoRequest]
  /\ env = FullEnv

NextWrite ==
  \E r \in Runs :
    \/ CreateOrUpdateGetFileContent(r)
    \/ CreateOrUpdateGetFileSha(r)
    \/ CreateOrUpdatePutUpdate(r)
    \/ CreateOrUpdatePutCreate(r)

SpecWrite == InitWrite /\ [][NextWrite]_vars

\* ------------------- specification: one converter operation, called directly
ConvTrees ==
  {EmptyTree,
   [p \in {FilePath(ValidConfig, <<"h", "i">>)} |-> <<"o", "l", "d">>],
   [p \in {FilePath(ValidConfig, <<"h", "i">>)} |-> <<>>]}

ConverterSteps(r) ==
  \/ ConvertAndPushValidateRepository(r)
  \/ GetPagesQuery(r)
  \/ GetPagesBlocks(r)
  \/ PushFilesGetRef(r)
  \/ PushFilesCreateTree(r)
  \/ PushFilesCreateCommit(r)
  \/ PushFilesUpdateRef(r)
  \/ CreateOrUpdateGetFileContent(r)
  \/ CreateOrUpdateGetFileSha(r)
  \/ CreateOrUpdatePutUpdate(r)
  \/ CreateOrUpdatePutCreate(r)

InitConv ==
  /\ InitText
  /\ InitHost(ConvTrees)
  /\ InitLocals
  /\ database \in Databases
  /\ files = [r \in Runs |-> <<>>]
  /\ arg = [r \in Runs |-> NoArg]
  /\ config = [r \in Runs |-> ValidConfig]
  /\ request = [r \in Runs |-> NoRequest]
  /\ env = FullEnv
  /\ \E o \in {"convertAndPush", "convertSinglePage"} :
       /\ op = [r \in Runs |-> IF r = "A" THEN o ELSE "none"]
       /\ pc = [r \in Runs |-> IF r # "A" THEN "idle"
                               ELSE IF o = "convertAndPush" THEN "cp_validateRepository"
                               ELSE "gp_query"]
       /\ \E id \in {PageIds[i] : i \in 1..MaxPages} \cup {AbsentPageId} :
            pageId = [r \in Runs |-> IF r = "A" /\ o = "convertSinglePage" THEN id ELSE ""]

NextConv == \E r \in Runs : ConverterSteps(r)

SpecConv == InitConv /\ [][NextConv]_vars

\* ------------------------------------- specification: one request to a route
SettingNames ==
  {"notionApiKey", "notionDatabaseId", "githubToken", "githubRepoOwner",
   "githubRepoName", "githubBranch", "outputPath"}

\* The request bodies of the two convert routes: any setting may be missing.
SettingsBodies(ids) ==
  {[notionApiKey |-> IF "notionApiKey" \in m THEN "" ELSE ValidConfig.notionApiKey,
    notionDatabaseId |-> IF "notionDatabaseId" \in m THEN "" ELSE DatabaseId,
    githubToken |-> IF "githubToken" \in m THEN "" ELSE ValidConfig.githubToken,
    githubRepoOwner |-> IF "githubRepoOwner" \in m THEN "" ELSE "owner",
    githubRepoName |-> IF "githubRepoName" \in m THEN "" ELSE "repo",
    githubBranch |-> IF "githubBranch" \in m THEN "" ELSE "main",
    outputPath |-> IF "outputPath" \in m THEN "" ELSE "content/posts",
    pageId |-> id] : m \in SUBSET SettingNames, id \in ids}

EnvNames == DOMAIN FullEnv

Envs == {[n \in EnvNames |-> IF n \in m THEN "" ELSE FullEnv[n]] : m \in SUBSET EnvNames}

WebhookBodies ==
  {[pageId |-> {}, eventTargetId |-> {}, eventsFirstId |-> {}],
   [pageId |-> {"p1"}, eventTargetId |-> {}, eventsFirstId |-> {}],
   [pageId |-> {""}, eventTargetId |-> {"p1"}, eventsFirstId |-> {}],
   [pageId |-> {}, eventTargetId |-> {"p1"}, eventsFirstId |-> {}],
   [pageId |-> {}, eventTargetId |-> {}, eventsFirstId |-> {AbsentPageId}]}

Requests ==
  {[route |-> "POST /api/convert", body |-> b, secret |-> ""] :
     b \in SettingsBodies({""})}
  \cup {[route |-> "POST /api/convert/page", body |-> b, secret |-> ""] :
          b \in SettingsBodies({"", "p1", AbsentPageId})}
  \cup {[route |-> "POST /api/webhooks/notion", body |-> b, secret |-> s] :
          b \in WebhookBodies, s \in {"", "s3cret", "wrong"}}

ServerDatabases == DatabasesOf(0) \cup DatabasesOf(1)

InitServer ==
  /\ InitText
  /\ InitHost(ConvTrees)
  /\ InitLocals
  /\ database \in ServerDatabases
  /\ files = [r \in Runs |-> <<>>]
  /\ arg = [r \in Runs |-> NoArg]
  /\ config = [r \in Runs |-> NoConfig]
  /\ op = [r \in Runs |-> "none"]
  /\ pageId = [r \in Runs |-> ""]
  /\ pc = [r \in Runs |-> IF r = "A" THEN "rt_start" ELSE "idle"]
  /\ \E q \in Requests :
       /\ request = [r \in Runs |-> IF r = "A" THEN q ELSE NoRequest]
       /\ IF q.route = "POST /api/webhooks/notion" THEN env \in Envs ELSE env = FullEnv

NextServer ==
  \E r \in Runs :
    \/ RouteConvert(r)
    \/ RouteConvertPage(r)
    \/ RouteWebhook(r)
    \/ ConverterSteps(r)

SpecServer == InitServer /\ [][NextServer]_vars

\* ------------------------------------ specifications of the text functions
\* No run of a service or a route is under way.
InitNoRun ==
  /\ InitHost({EmptyTree})
  /\ InitLocals
  /\ database = <<>>
  /\ pc = [r \in Runs |-> "idle"]
  /\ files = [r \in Runs |-> <<>>]
  /\ arg = [r \in Runs |-> NoArg]
  /\ config = [r \in Runs |-> ValidConfig]
  /\ op = [r \in Runs |-> "none"]
  /\ pageId = [r \in Runs |-> ""]
  /\ request = [r \in Runs |-> NoRequest]
  /\ env = FullEnv

\* Page titles: white space, hyphens, letters of both cases, a stripped
\* character, up to MaxTitle characters.
TitleChars == {" ", "\t", "-", "a", "B", "!"}
Titles == UNION {[1..n -> TitleChars] : n \in 0..MaxTitle}

\* const fileName = this.generateFileName(page.title)
GenerateFileName ==
  /\ outFileName = Null
  /\ outFileName' = {generateFileName(inTitle)}
  /\ UNCHANGED <<hostVars, pushVars, writeVars, convVars, srvVars, pc, exc, calls,
                 failed, result, response, inTitle, inBlock, outMarkdown>>

InitName ==
  /\ InitNoRun
  /\ inTitle \in Titles
  /\ outFileName = Null
  /\ inBlock = NoBlock
  /\ outMarkdown = Null

NextName == GenerateFileName

SpecName == InitName /\ [][NextName]_vars

\* Rich text: up to MaxSpans spans, with or without annotations and link; a
\* span's text may be empty or end with a line break.
SpanTexts == {<<>>, <<"x">>, <<"x", "\n">>}
Spans ==
  [plain_text : SpanTexts, bold : BOOLEAN, italic : {FALSE}, strikethrough : {FALSE},
   code : BOOLEAN, href : {<<>>, <<"u">>}]
RichTexts == UNION {[1..n -> Spans] : n \in 0..MaxSpans}

TextBlockTypes ==
  {"paragraph", "heading_1", "heading_2", "heading_3", "bulleted_list_item",
   "numbered_list_item", "quote", "callout"}

\* The blocks of a page: every type the switch names, and one it does not.
Blocks ==
  [type : TextBlockTypes, rich_text : RichTexts]
  \cup [type : {"code"}, language : {<<>>, <<"j", "s">>}, rich_text : RichTexts]
  \cup [type : {"image"}, caption : RichTexts, imageType : {"external", "file"},
        externalUrl : {<<"e">>}, fileUrl : {<<"f">>}]
  \cup {[type |-> "divider"]}

\* markdown += this.convertBlockToMarkdown(block)
ConvertBlockToMarkdown ==
  /\ outMarkdown = Null
  /\ outMarkdown' = {convertBlockToMarkdown(inBlock)}
  /\ UNCHANGED <<hostVars, pushVars, writeVars, convVars, srvVars, pc, exc, calls,
                 failed, result, response, inTitle, outFileName, inBlock>>

InitBlock ==
  /\ InitNoRun
  /\ inTitle = <<>>
  /\ outFileName = Null
  /\ inBlock \in Blocks
  /\ outMarkdown = Null

NextBlock == ConvertBlockToMarkdown

SpecBlock == InitBlock /\ [][NextBlock]_vars

\* ================================================================ claims
PushSteps == <<"getRef", "createTree", "createCommit", "updateRef">>
Updaters == {refLog[i].by : i \in DOMAIN refLog}
PushReturned(r) == pc[r] = "pf_done" /\ exc[r] = NoExc
PushThrew(r) == pc[r] = "pf_done" /\ exc[r] # NoExc

\* C1: when a hosting call of pushFiles (get-ref, create-tree, create-commit or
\* update-ref) fails, pushFiles throws, the run has applied no ref update, and
\* the branch ref is the one the run found unless another run moved it.
C1_FailedPushLeavesRef ==
  \A r \in Runs :
    (failed[r] # <<>>) =>
      /\ PushThrew(r)
      /\ failed[r] = <<calls[r][Len(calls[r])]>>
      /\ r \notin Updaters
      /\ (Updaters = {}) => ref = refAtStart[r]

C1_Witness ==
  \E r \in Runs :
    /\ failed[r] = <<"createCommit">>
    /\ PushThrew(r)
    /\ ref = refAtStart[r]

\* C2 (as claimed): a pushFiles run that returns has issued the four calls once
\* each, in order, has advanced the ref once, to a commit whose only parent is
\* the commit read in step 1 and whose tree holds every input file's path with
\* that file's content.
C2_Original ==
  \A r \in Runs :
    PushReturned(r) =>
      /\ calls[r] = PushSteps
      /\ Cardinality({i \in DOMAIN refLog : refLog[i].by = r}) = 1
      /\ \A i \in DOMAIN refLog : refLog[i].by = r => refLog[i].sha = commit[r]
      /\ commits[commit[r]].parents = <<base[r]>>
      /\ \A i \in DOMAIN files[r] :
           /\ files[r][i].path \in DOMAIN TreeOf(commit[r])
           /\ TreeOf(commit[r])[files[r][i].path] = files[r][i].content

\* C2 (amended): as claimed, except that a path given more than once in the
\* batch holds the content of one of the files given for it; and every commit
\* the ref was advanced to by a run holds the run's whole batch in that sense.
WholeBatchIn(r, sha) ==
  \A i \in DOMAIN files[r] :
    /\ files[r][i].path \in DOMAIN TreeOf(sha)
    /\ \E j \in DOMAIN files[r] :
         /\ files[r][j].path = files[r][i].path
         /\ TreeOf(sha)[files[r][i].path] = files[r][j].content

C2_SingleCommitWholeBatch ==
  /\ \A r \in Runs :
       PushReturned(r) =>
         /\ calls[r] = PushSteps
         /\ Cardinality({i \in DOMAIN refLog : refLog[i].by = r}) = 1
         /\ commits[commit[r]].parents = <<base[r]>>
  /\ \A i \in DOMAIN refLog :
       /\ refLog[i].sha = commit[refLog[i].by]
       /\ WholeBatchIn(refLog[i].by, refLog[i].sha)

C2_Witness ==
  \E r \in Runs :
    /\ PushReturned(r)
    /\ Len(files[r]) = 2
    /\ files[r][1].path # files[r][2].path
    /\ ref = commit[r]

\* C3: when both runs read the same branch commit and both return, the ref was
\* updated twice, the branch is at the later writer's commit, and the earlier
\* writer's commit is not in its history.
C3_LostUpdate ==
  (/\ \A r \in Runs : PushReturned(r)
   /\ base["A"] = base["B"]) =>
     /\ Len(refLog) = 2
     /\ LET later == refLog[2].by
            earlier == refLog[1].by
        IN /\ later # earlier
           /\ ref = commit[later]
           /\ commit[earlier] \notin Ancestors(ref)

C3_Witness ==
  /\ \A r \in Runs : PushReturned(r)
  /\ base["A"] = base["B"]
  /\ ref = commit["B"]
  /\ commit["A"] \notin Ancestors(ref)

\* C4 (as claimed): every content-write call carries the current content-hash
\* of the file at its path when there is one, and no hash when there is none.
C4_WriteCarriesCurrentSha ==
  \A i \in DOMAIN writes : writes[i].sha = writes[i].current

\* C5: when the existence lookup of createOrUpdateFile answers 404, the file
\* counts as absent and the one write issued is a create (no sha); when a lookup
\* fails in another way, createOrUpdateFile throws and no write is issued.
WritesBy(r) == {i \in DOMAIN writes : writes[i].by = r}

C5_MissIsCreateOtherFailurePropagates ==
  \A r \in Runs :
    /\ (calls[r] # <<>> /\ calls[r][1] = "getContent404") =>
         /\ existingFile[r] = Null
         /\ pc[r] \in {"cu_create", "cu_done"}
         /\ pc[r] = "cu_done" =>
              /\ Cardinality(WritesBy(r)) = 1
              /\ \A i \in WritesBy(r) : writes[i].sha = Omitted
    /\ (\E k \in DOMAIN failed[r] : failed[r][k] = "getContent") =>
         /\ pc[r] = "cu_done"
         /\ exc[r] # NoExc
         /\ WritesBy(r) = {}

C5_Witness ==
  \E r \in Runs :
    /\ calls[r] = <<"getContent404", "putContents">>
    /\ pc[r] = "cu_done"
    /\ exc[r] = NoExc
    /\ \A i \in WritesBy(r) : writes[i].sha = Omitted

\* ---------------------------------------------------------------- converter
Returned(r) == pc[r] = "cv_done"
Renderable == \A i \in DOMAIN database : IsValidTime(database[i].last_edited_time)
HostingCalls ==
  {"repos.get", "getRef", "createTree", "createCommit", "updateRef", "getContent",
   "getContent404", "putContents"}
WriteSteps == {"getRef", "createTree", "createCommit", "updateRef", "putContents"}
CallSet(r) == {calls[r][i] : i \in DOMAIN calls[r]}
FailedSet(r) == {failed[r][i] : i \in DOMAIN failed[r]}

\* A full-database sync whose only failed call is the block fetch of one page,
\* every page being renderable.
OneBlockFetchFailed(r) ==
  /\ op[r] = "convertAndPush"
  /\ Returned(r)
  /\ Renderable
  /\ failed[r] = <<"blocks.children.list">>

\* C6 (as claimed): in such a sync over N pages the page is skipped: success,
\* filesProcessed N - 1, and one error naming the page's title.
C6_Original ==
  \A r \in Runs :
    OneBlockFetchFailed(r) =>
      /\ result[r].success
      /\ result[r].filesProcessed = Len(database) - 1
      /\ "errors" \in DOMAIN result[r]
      /\ Len(result[r].errors) = 1
      /\ \A k \in blockFail[r] :
           SubSeq(result[r].errors[1], 2, 1 + Len(pages[r][k].title)) = pages[r][k].title

\* C6 (amended): in such a sync over N pages the page is not skipped: it gives
\* a file like every other page, made of its title and an empty body; success,
\* filesProcessed N, and no errors list.
C6_FailedFetchPageStillPushed ==
  \A r \in Runs :
    OneBlockFetchFailed(r) =>
      /\ result[r].success
      /\ result[r].filesProcessed = Len(database)
      /\ "errors" \notin DOMAIN result[r]
      /\ Len(files[r]) = Len(database)
      /\ \A k \in blockFail[r] :
           /\ pages[r][k].content = <<>>
           /\ files[r][k] = GitHubFile(config[r], pages[r][k], convertToMDX(pages[r][k]).value)

C6_Witness ==
  \E r \in Runs :
    /\ OneBlockFetchFailed(r)
    /\ Len(database) = 3
    /\ blockFail[r] = {2}
    /\ result[r].filesProcessed = 3

\* C7: a page whose block fetch failed during the listing is listed with its
\* title and an empty body, and the listing goes on: once it is over, every
\* page of the database is listed, in the order of the query.
C7_FetchFailureGivesEmptyBody ==
  \A r \in Runs :
    (blockFail[r] # {}) =>
      /\ \A k \in blockFail[r] :
           /\ k <= Len(pages[r])
           /\ pages[r][k].id = database[k].id
           /\ pages[r][k].title = extractTitle(database[k].properties)
           /\ pages[r][k].content = <<>>
      /\ pc[r] # "gp_blocks" =>
           /\ Len(pages[r]) = Len(database)
           /\ \A j \in DOMAIN database : pages[r][j].id = database[j].id
           /\ \A j \in DOMAIN database :
                j \notin blockFail[r] => pages[r][j].content # <<>>

C7_Witness ==
  \E r \in Runs :
    /\ blockFail[r] = {2}
    /\ Len(pages[r]) = 3
    /\ pc[r] # "gp_blocks"
    /\ pages[r][2].title = <<"H", "i", "!">>

\* C8: whatever the collaborators answer, a converter operation that is not
\* over has returned nothing and awaits a collaborator's answer, after a number
\* of calls the listing bounds; one that is over has returned a record with a
\* success flag and a message, with success false when a write step failed.
AwaitPositions ==
  {"cp_validateRepository", "gp_query", "gp_blocks", "pf_getRef", "pf_createTree",
   "pf_createCommit", "pf_updateRef", "cu_getFileContent", "cu_getFileSha",
   "cu_update", "cu_create"}

C8_AlwaysStructuredResult ==
  \A r \in Runs :
    (op[r] \in {"convertAndPush", "convertSinglePage"}) =>
      /\ Len(calls[r]) <= Len(database) + 6
      /\ ~Returned(r) => /\ result[r] = NoResult
                         /\ pc[r] \in AwaitPositions
      /\ Returned(r) =>
           /\ {"success", "message"} \subseteq DOMAIN result[r]
           /\ result[r].success \in BOOLEAN
           /\ (FailedSet(r) \cap WriteSteps # {}) => ~result[r].success
           /\ ~result[r].success => "errors" \in DOMAIN result[r]

C8_Witness ==
  \E r \in Runs :
    /\ op[r] = "convertSinglePage"
    /\ Returned(r)
    /\ failed[r] = <<"putContents">>
    /\ ~result[r].success

\* C9: a single-page sync whose listing succeeded and holds no page with the
\* requested id returns success false with the message "Page not found", and
\* has made no call to the hosting service.
PageAbsent(r) ==
  /\ op[r] = "convertSinglePage"
  /\ Returned(r)
  /\ "databases.query" \in CallSet(r)
  /\ "databases.query" \notin FailedSet(r)
  /\ \A i \in DOMAIN database : database[i].id # pageId[r]

C9_PageNotFound ==
  \A r \in Runs :
    PageAbsent(r) =>
      /\ ~result[r].success
      /\ result[r].message = "Page not found"
      /\ CallSet(r) \cap HostingCalls = {}
      /\ writes = <<>>
      /\ ref = 1

C9_Witness ==
  \E r \in Runs :
    /\ PageAbsent(r)
    /\ Len(database) = 2
    /\ result[r].message = "Page not found"

\* ------------------------------------------------------------------- routes
Triggered(r) == request[r].route # "none"

\* C10 (as claimed): on every trigger path the settings are checked before the
\* first call to a collaborator: no run has called the content source or the
\* hosting service for a converter in whose configuration validateConfiguration
\* finds a required setting (the database id included) missing.
C10_SettingsCheckedBeforeNetwork ==
  \A r \in Runs :
    (Triggered(r) /\ calls[r] # <<>>) => validateConfiguration(config[r]).isValid

\* The other half of C10 as claimed: a route that answers 400 for missing
\* settings reports them as a list.
MissingSettingsListed ==
  \A r \in Runs :
    (Triggered(r) /\ pc[r] = "rt_done" /\ response[r].status = 400) =>
      /\ "errors" \in DOMAIN response[r].body
      /\ Len(response[r].body.errors) > 0

\* ------------------------------------------------------------------ webhook
IsWebhook(r) == request[r].route = "POST /api/webhooks/notion"

\* The configured secret is not empty and the header equals it.
SecretMatches(r) ==
  /\ env.WEBHOOK_SECRET # ""
  /\ request[r].secret = env.WEBHOOK_SECRET

\* C11: the webhook handler invokes convertSinglePage or convertAndPush only
\* when the configured secret is non-empty and the X-Webhook-Secret header
\* equals it; on a mismatch, a missing header or an absent or empty configured
\* secret the request is answered 401, no converter operation is started and no
\* call to the content source or the hosting service is made.
C11_WebhookSecretGuardsCore ==
  \A r \in Runs :
    IsWebhook(r) =>
      /\ (op[r] # "none" \/ calls[r] # <<>>) => SecretMatches(r)
      /\ (~SecretMatches(r) /\ pc[r] # "rt_start") =>
           /\ pc[r] = "rt_done"
           /\ response[r] = [status |-> 401,
                             body |-> [success |-> FALSE, message |-> "Unauthorized"]]
           /\ op[r] = "none"
           /\ calls[r] = <<>>
           /\ result[r] = NoResult
           /\ config[r] = NoConfig

\* A webhook request was rejected although the header and the configured
\* secret are equal: both are empty.
C11_Witness ==
  \E r \in Runs :
    /\ IsWebhook(r)
    /\ env.WEBHOOK_SECRET = ""
    /\ request[r].secret = ""
    /\ pc[r] = "rt_done"
    /\ response[r].status = 401

\* ---------------------------------------------------------------- file names
NoEdgeHyphen(name) == name = <<>> \/ (name[1] # "-" /\ name[Len(name)] # "-")
NoAdjacentHyphens(name) ==
  \A i \in 1..(Len(name) - 1) : ~(name[i] = "-" /\ name[i + 1] = "-")
NoWhitespace(name) == \A i \in DOMAIN name : name[i] \notin Whitespace

\* C12 (as claimed): for every title the file name generateFileName derives
\* neither begins nor ends with a hyphen, holds no two adjacent hyphens and
\* holds no white space.
C12_FileNameWellFormed ==
  \A name \in outFileName :
    NoEdgeHyphen(name) /\ NoAdjacentHyphens(name) /\ NoWhitespace(name)

\* The part of C12 the code keeps: no two adjacent hyphens and no white space.
FileNameHyphensCollapsed ==
  \A name \in outFileName : NoAdjacentHyphens(name) /\ NoWhitespace(name)

\* ------------------------------------------------------- full-database runs
IsFullRun(r) == op[r] = "convertAndPush"
ContentSourceCalls == {"databases.query", "blocks.children.list"}

\* C13: convertAndPush checks the repository before any call to the content
\* source; when that check fails the run returns success: false and has not
\* queried the content source, rendered a page or issued a hosting write
\* (get-ref, create-tree, create-commit, update-ref).
C13_RepositoryCheckedFirst ==
  \A r \in Runs :
    IsFullRun(r) =>
      /\ calls[r] # <<>> => calls[r][1] = "repos.get"
      /\ "repos.get" \in FailedSet(r) =>
           /\ Returned(r) \/ pc[r] = "rt_done"
           /\ ~result[r].success
           /\ result[r].message = "Invalid GitHub repository configuration"
           /\ calls[r] = <<"repos.get">>
           /\ pages[r] = <<>>
           /\ files[r] = <<>>
           /\ r \notin Updaters
           /\ Len(commits) = 1

\* The repository check of a run over a database with pages has failed.
C13_Witness ==
  \E r \in Runs :
    /\ IsFullRun(r)
    /\ database # <<>>
    /\ failed[r] = <<"repos.get">>
    /\ Returned(r)

\* The calls of run r named name.
CallCount(r, name) == Cardinality({i \in DOMAIN calls[r] : calls[r][i] = name})

\* Run r has entered pushFiles.
PushInvoked(r) == CallSet(r) \cap {"getRef", "createTree", "createCommit", "updateRef"} # {}

\* pushFiles has returned to run r: its four calls were made and none failed.
PushCompleted(r) ==
  /\ Len(calls[r]) >= 4
  /\ SubSeq(calls[r], Len(calls[r]) - 3, Len(calls[r])) = PushSteps
  /\ FailedSet(r) \cap {"getRef", "createTree", "createCommit", "updateRef"} = {}
  /\ r \in Updaters

\* The listing of run r is over and gave no file: it is empty, or no page of it
\* can be rendered.
NoFileProduced(r) ==
  /\ "databases.query" \in CallSet(r) \ FailedSet(r)
  /\ \A i \in DOMAIN database : ~IsValidTime(database[i].last_edited_time)

\* C14: a full-database run returns success: true exactly when at least one
\* file was produced and the commit protocol completed, and filesProcessed is
\* then the number of files of the one batch; when the listing is empty or no
\* page gives a file the run returns success: false and pushFiles is never
\* invoked; pushFiles is invoked at most once per run, and only after every
\* listed page has been processed.
C14_SuccessIffPushed ==
  \A r \in Runs :
    IsFullRun(r) =>
      /\ Returned(r) =>
           /\ result[r].success <=> (files[r] # <<>> /\ PushCompleted(r))
           /\ result[r].success =>
                /\ result[r].filesProcessed = Len(files[r])
                /\ Len(refLog) = 1
                /\ {files[r][i].path : i \in DOMAIN files[r]} \subseteq DOMAIN TreeOf(ref)
           /\ NoFileProduced(r) => ~result[r].success /\ ~PushInvoked(r)
      /\ NoFileProduced(r) => ~PushInvoked(r) /\ files[r] = <<>>
      /\ CallCount(r, "getRef") <= 1
      /\ (PushInvoked(r) \/ pc[r] = "pf_getRef") =>
           /\ files[r] # <<>>
           /\ Len(pages[r]) = Len(database)
           /\ Len(files[r]) + Len(errors[r]) = Len(pages[r])
           /\ CallCount(r, "blocks.children.list") = Len(database)
           /\ \A i \in DOMAIN calls[r] :
                calls[r][i] \in ContentSourceCalls =>
                  \A j \in DOMAIN calls[r] : calls[r][j] \in {"getRef", "createTree", "createCommit", "updateRef"} => i < j

\* A run over three pages of which one cannot be rendered has pushed the two
\* files of the others and reports the third.
C14_Witness ==
  \E r \in Runs :
    /\ IsFullRun(r)
    /\ Returned(r)
    /\ result[r].success
    /\ Len(database) = 3
    /\ result[r].filesProcessed = 2
    /\ Len(result[r].errors) = 1

\* A run over pages none of which can be rendered has returned.
C14_WitnessNoFile ==
  \E r \in Runs :
    /\ IsFullRun(r)
    /\ Returned(r)
    /\ database # <<>>
    /\ NoFileProduced(r)

\* -------------------------------------------------------------------- blocks
\* The text ends with two line breaks and no third one before them.
EndsWithExactlyTwoNewlines(text) ==
  /\ Len(text) >= 2
  /\ text[Len(text)] = "\n"
  /\ text[Len(text) - 1] = "\n"
  /\ Len(text) >= 3 => text[Len(text) - 2] # "\n"

\* C15 (as claimed): for every block type (paragraph, heading 1-3, bulleted
\* item, numbered item, code, quote, image, divider, unknown) the text
\* convertBlockToMarkdown emits ends with exactly two newline characters.
C15_BlockEndsWithTwoNewlines ==
  \A text \in outMarkdown : EndsWithExactlyTwoNewlines(text)

\* The rich text of the block does not itself end with a line break.
NoTrailingBreak(b) ==
  \/ "rich_text" \notin DOMAIN b
  \/ b.rich_text = <<>>
  \/ LET last == RenderSpan(b.rich_text[Len(b.rich_text)])
     IN last = <<>> \/ last[Len(last)] # "\n"

\* What the code keeps of C15: every block but a divider, whose text does not
\* end with a line break, is emitted with exactly two newline characters at
\* its end; a divider is emitted with four.
BlockEndsWithTwoNewlinesUnlessDivider ==
  \A text \in outMarkdown :
    IF inBlock.type = "divider"
      THEN text = <<"\n", "-", "-", "-", "\n", "\n", "\n", "\n">>
      ELSE NoTrailingBreak(inBlock) => EndsWithExactlyTwoNewlines(text)

====
